---------------------------- MODULE Spec2Model ----------------------------
(***************************************************************************)
(* A model of file_config_reader.py: the FileConfigReader facade, its two  *)
(* process-wide caches (_config_cache, _tree_cache), the tree indexer      *)
(* (tree_scan), the lookup resolver (find) and invalidate_caches.          *)
(*                                                                         *)
(* Path strings are sequences of one-character strings, so that the        *)
(* string operations the code relies on (normpath, join, startswith,       *)
(* lexicographic comparison in sort) are computed, not assumed.            *)
(***************************************************************************)
EXTENDS Integers, Sequences, FiniteSets, TLC

(***************************************************************************)
(* Strings                                                                 *)
(***************************************************************************)

\* os.sep on a POSIX build.
sep == "/"

\* The characters used by the model's paths, with their code points: Python
\* compares strings by code point.
Ord(c) ==
    CASE c = "." -> 46
      [] c = "/" -> 47
      [] c = "a" -> 97
      [] c = "b" -> 98
      [] c = "c" -> 99
      [] c = "f" -> 102
      [] c = "j" -> 106
      [] c = "k" -> 107
      [] c = "n" -> 110
      [] c = "o" -> 111
      [] c = "r" -> 114
      [] c = "s" -> 115
      [] c = "x" -> 120
      [] c = "y" -> 121

\* s < t for Python str: the first differing character decides, a proper
\* prefix is smaller.
RECURSIVE StrLess(_, _)
StrLess(s, t) ==
    IF t = <<>> THEN FALSE
    ELSE IF s = <<>> THEN TRUE
    ELSE IF Head(s) # Head(t) THEN Ord(Head(s)) < Ord(Head(t))
    ELSE StrLess(Tail(s), Tail(t))

\* s.startswith(p)
startswith(s, p) ==
    /\ Len(p) <= Len(s)
    /\ SubSeq(s, 1, Len(p)) = p

\* s.endswith(p)
endswith(s, p) ==
    /\ Len(p) <= Len(s)
    /\ SubSeq(s, Len(s) - Len(p) + 1, Len(s)) = p

\* s.count(c) for a one-character c
count(s, c) == Cardinality({i \in 1..Len(s) : s[i] = c})

\* s.rstrip(c)
RECURSIVE rstrip(_, _)
rstrip(s, c) ==
    IF s # <<>> /\ s[Len(s)] = c THEN rstrip(SubSeq(s, 1, Len(s) - 1), c) ELSE s

\* s.lstrip(c)
RECURSIVE lstrip(_, _)
lstrip(s, c) ==
    IF s # <<>> /\ Head(s) = c THEN lstrip(Tail(s), c) ELSE s

\* s.strip(c)
strip(s, c) == rstrip(lstrip(s, c), c)

\* s.split(c): the pieces between the occurrences of c (empty pieces kept).
RECURSIVE split(_, _)
split(s, c) ==
    IF \A i \in 1..Len(s) : s[i] # c THEN <<s>>
    ELSE LET i == CHOOSE k \in 1..Len(s) :
                     s[k] = c /\ \A j \in 1..(k - 1) : s[j] # c
         IN  <<SubSeq(s, 1, i - 1)>> \o split(SubSeq(s, i + 1, Len(s)), c)

\* c.join(parts)
RECURSIVE joinstr(_, _)
joinstr(parts, c) ==
    IF parts = <<>> THEN <<>>
    ELSE IF Len(parts) = 1 THEN parts[1]
    ELSE parts[1] \o <<c>> \o joinstr(Tail(parts), c)

(***************************************************************************)
(* os.path (posixpath)                                                     *)
(***************************************************************************)

dot == <<".">>
dotdot == <<".", ".">>

\* os.path.join(a, b)
join(a, b) ==
    IF startswith(b, <<sep>>) THEN b
    ELSE IF a = <<>> \/ endswith(a, <<sep>>) THEN a \o b
    ELSE a \o <<sep>> \o b

\* The component loop of posixpath.normpath.
RECURSIVE normcomps(_, _, _)
normcomps(comps, new, initial) ==
    IF comps = <<>> THEN new
    ELSE LET comp == Head(comps)
             rest == Tail(comps)
         IN  IF comp = <<>> \/ comp = dot THEN normcomps(rest, new, initial)
             ELSE IF \/ comp # dotdot
                     \/ (~initial /\ new = <<>>)
                     \/ (new # <<>> /\ new[Len(new)] = dotdot)
                  THEN normcomps(rest, Append(new, comp), initial)
             ELSE IF new # <<>>
                  THEN normcomps(rest, SubSeq(new, 1, Len(new) - 1), initial)
             ELSE normcomps(rest, new, initial)

\* os.path.normpath(path)
normpath(path) ==
    IF path = <<>> THEN dot
    ELSE LET initial == startswith(path, <<sep>>)
             \* exactly two leading slashes are kept, any other number is one
             slashes == IF startswith(path, <<sep, sep>>)
                           /\ ~startswith(path, <<sep, sep, sep>>)
                        THEN <<sep, sep>>
                        ELSE IF initial THEN <<sep>> ELSE <<>>
             body == joinstr(normcomps(split(path, sep), <<>>, initial), sep)
             out == slashes \o body
         IN  IF out = <<>> THEN dot ELSE out

\* os.path.basename(p)
basename(p) ==
    LET parts == split(p, sep) IN parts[Len(parts)]

\* os.path.dirname(p)
dirname(p) ==
    LET head == SubSeq(p, 1, Len(p) - Len(basename(p)))
    IN  IF head # <<>> /\ rstrip(head, sep) # <<>> THEN rstrip(head, sep) ELSE head

\* The process's working directory, used by os.path.abspath.
getcwd == <<sep>>

\* os.path.abspath(p)
abspath(p) ==
    IF startswith(p, <<sep>>) THEN normpath(p) ELSE normpath(join(getcwd, p))

(***************************************************************************)
(* Universe: the files and directories of the modelled filesystem           *)
(***************************************************************************)

\* Largest modification time a file is given.
MaxMtime == 2

Mtimes == 1..MaxMtime

\* class ConfTypes
KEY_VALUE == "KEY_VALUE"
JSON == "JSON"
ConfTypes == {KEY_VALUE, JSON}

\* Python's None, for an optional argument that is a string or a list.
None == <<"None">>

\* {} : the empty dict
EmptyDict == [k \in {} |-> <<>>]

\* The configuration files' paths.
pathC == <<"c">>
pathD == <<"d">>

\* A path of the filesystem: absent, or a file with its text and its mtime.
NoFile == [exists |-> FALSE, text |-> <<>>, mtime |-> 0]
File(text, mtime) == [exists |-> TRUE, text |-> text, mtime |-> mtime]

\* The two root directories configuration files point at.
rootR == <<"/", "r">>
rootS == <<"/", "s">>

\* Lines of a key=value file as load_config's loop sees them after strip().
Assign(k, v) == [t |-> "assign", key |-> k, value |-> v]
Comment == [t |-> "comment", key |-> "", value |-> <<>>]
Blank == [t |-> "blank", key |-> "", value |-> <<>>]
NoEquals == [t |-> "noequals", key |-> "", value |-> <<>>]

\* A file's text: key=value lines, or a JSON document holding an object.
KvText(ls) == [fmt |-> "lines", lines |-> ls, obj |-> EmptyDict]
JsonText(o) == [fmt |-> "json", lines |-> <<NoEquals>>, obj |-> o]

\* root=/r
TextRoot == KvText(<<Assign("root", rootR)>>)
\* a comment, a blank line, root=r (relative to the working directory), db=x
TextRootDb == KvText(<<Comment, Blank, Assign("root", <<"r">>), Assign("db", <<"x">>)>>)
\* db=x : no root key
TextNoRoot == KvText(<<Assign("db", <<"x">>)>>)
\* root=/s
TextRootS == KvText(<<Assign("root", rootS)>>)
\* a line without '='
TextBad == KvText(<<NoEquals>>)
\* {"root": "/r"}
TextJson == JsonText([root |-> rootR])
\* root= (an empty value), db=x
TextEmptyRoot == KvText(<<Assign("root", <<>>), Assign("db", <<"x">>)>>)
\* root=/s, then root=/r : the key is assigned twice
TextRootTwice == KvText(<<Assign("root", rootS), Assign("root", rootR)>>)
\* {"db": "x"}
TextJsonNoRoot == JsonText([db |-> <<"x">>])

(***************************************************************************)
(* Configuration Loader                                                    *)
(***************************************************************************)

\* A call's outcome: the value returned, or the exception raised.
Ok(v) == [ok |-> TRUE, value |-> v, err |-> "none", missing |-> <<>>]
Raise(e) == [ok |-> FALSE, value |-> None, err |-> e, missing |-> <<>>]
RaiseMissing(keys) ==
    [ok |-> FALSE, value |-> None, err |-> "MissingRequiredKeys", missing |-> keys]

\* The Python exception class of each error.
ExcType(e) ==
    CASE e \in {"FileNotFound", "NotFoundUnderRoot", "NotFoundUnderScope",
                "ReadFileNotFound"} -> "FileNotFoundError"
      [] e \in {"MissingRequiredKeys", "MissingRoot"} -> "KeyError"
      [] e \in {"ParseError", "InvalidRoot", "NameRequired", "DecodeError"} -> "ValueError"
      [] OTHER -> "none"

\* dict with d[k] = v set
Put(d, k, v) == [x \in DOMAIN d \cup {k} |-> IF x = k THEN v ELSE d[x]]

\* dict with key k popped
Pop(d, k) == [x \in DOMAIN d \ {k} |-> d[x]]

\* Mutant of missing_keys: only the first missing key is reported.
missing_keys_first_only(required_keys, config) ==
    LET absent == {i \in 1..Len(required_keys) : required_keys[i] \notin DOMAIN config}
    IN  IF absent = {} THEN <<>>
        ELSE <<required_keys[CHOOSE i \in absent : \A j \in absent : i <= j]>>

\* [key for key in required_keys if key not in config]
RECURSIVE missing_keys(_, _)
missing_keys(required_keys, config) ==
    IF required_keys = <<>> THEN <<>>
    ELSE (IF Head(required_keys) \in DOMAIN config THEN <<>>
          ELSE <<Head(required_keys)>>)
         \o missing_keys(Tail(required_keys), config)

\* if required_keys: ... raise KeyError(missing) ; return config
check_required(required_keys, config) ==
    IF required_keys # None /\ required_keys # <<>>
       /\ missing_keys(required_keys, config) # <<>>
    THEN RaiseMissing(missing_keys(required_keys, config))
    ELSE Ok(config)

\* The loop of load_config over the file's lines: the dict built so far, or
\* the ValueError of unpacking a line that has no '='.
RECURSIVE parse_lines(_, _)
parse_lines(lines, config) ==
    IF lines = <<>> THEN Ok(config)
    ELSE LET line == Head(lines) IN
         IF line.t \in {"blank", "comment"} THEN parse_lines(Tail(lines), config)
         ELSE IF line.t = "noequals" THEN Raise("ParseError")
         ELSE parse_lines(Tail(lines), Put(config, line.key, line.value))

\* FileConfigReader.load_json
load_json(fs, path, required_keys) ==
    IF ~fs[path].exists THEN Raise("FileNotFound")
    ELSE IF fs[path].text.fmt # "json" THEN Raise("ParseError")
    ELSE check_required(required_keys, fs[path].text.obj)

\* FileConfigReader.load_config
load_config(fs, path, conf_type, required_keys) ==
    IF ~fs[path].exists THEN Raise("FileNotFound")
    ELSE IF conf_type = JSON THEN load_json(fs, path, required_keys)
    ELSE LET parsed == parse_lines(fs[path].text.lines, EmptyDict) IN
         IF ~parsed.ok THEN parsed
         ELSE check_required(required_keys, parsed.value)

(***************************************************************************)
(* Tree Indexer                                                            *)
(***************************************************************************)

\* A file below a root is the sequence of its components, directories first:
\* a/x is <<"a", "x">> holding the strings "a" and "x".
fileX == << <<"x">> >>
fileY == << <<"y">> >>
fileAX == << <<"a">>, <<"x">> >>
fileBX == << <<"b">>, <<"x">> >>
fileABX == << <<"a", "b">>, <<"x">> >>
fileA_BX == << <<"a">>, <<"b">>, <<"x">> >>
\* k.conf and a/j.json : files of the types find parses
fileKConf == << <<"k", ".", "c", "o", "n", "f">> >>
fileAJson == << <<"a">>, <<"j", ".", "j", "s", "o", "n">> >>

\* A directory of the filesystem: absent, or the set of files below it.
NoDir == [exists |-> FALSE, files |-> {}]
Dir(fileset) == [exists |-> TRUE, files |-> fileset]

\* os.path.exists(root_abs) for a directory
dir_exists(ds, root_abs) == root_abs \in DOMAIN ds /\ ds[root_abs].exists

\* The file's name: the last component os.walk yields in filenames.
filename_of(f) == f[Len(f)]

\* os.path.relpath(dirpath, root_abs) for the directory os.walk found f in.
rel_dir_of(f) ==
    IF Len(f) = 1 THEN dot ELSE joinstr(SubSeq(f, 1, Len(f) - 1), sep)

\* rel_path = filename if rel_dir == "." else normpath(join(rel_dir, filename))
rel_path_of(f) ==
    IF rel_dir_of(f) = dot THEN filename_of(f)
    ELSE normpath(join(rel_dir_of(f), filename_of(f)))

\* FileConfigReader._depth
_depth(rel_path) ==
    IF strip(rel_path, sep) = <<>> THEN 1
    ELSE count(strip(rel_path, sep), sep) + 1

\* Mutant of key_less: the paths are ordered by the path string alone.
key_less_path_only(p, q) == StrLess(p, q)

\* The order of the sort key (depth, path): tuples compare left to right.
key_less(p, q) ==
    \/ _depth(p) < _depth(q)
    \/ (_depth(p) = _depth(q) /\ StrLess(p, q))

\* paths.sort(key=...): the paths in ascending key order.
RECURSIVE sort_paths(_)
sort_paths(paths) ==
    IF paths = {} THEN <<>>
    ELSE LET m == CHOOSE p \in paths : \A q \in paths \ {p} : key_less(p, q)
         IN  <<m>> \o sort_paths(paths \ {m})

\* The index tree_scan builds from the files os.walk yields.
build_index(fileset) ==
    [fname \in {filename_of(f) : f \in fileset} |->
        sort_paths({rel_path_of(f) : f \in {g \in fileset : filename_of(g) = fname}})]

\* FileConfigReader.tree_scan
tree_scan(ds, root_abs) ==
    IF root_abs = <<>> \/ ~dir_exists(ds, root_abs) THEN Raise("InvalidRoot")
    ELSE Ok(build_index(ds[root_abs].files))

(***************************************************************************)
(* Lookup Resolver                                                         *)
(***************************************************************************)

\* effective_start of find: the normalized join of start and the name's
\* directory part, or "" when both are empty.
effective_start(name, start) ==
    LET path_hint == dirname(normpath(name))
        start_or == IF start = None THEN <<>> ELSE start
    IN  IF start_or # <<>> \/ path_hint # <<>>
        THEN normpath(join(start_or, path_hint))
        ELSE <<>>

\* Mutant of in_scope: the prefix test without the separator.
in_scope_no_sep(rp, prefix) == startswith(rp, prefix)

\* Mutant of in_scope: only the path equal to the scope is accepted.
in_scope_equal_only(rp, prefix) == rp = prefix

\* rp == prefix or rp.startswith(prefix + os.sep)
in_scope(rp, prefix) == rp = prefix \/ startswith(rp, prefix \o <<sep>>)

\* The loop over candidates of find: the first one in scope, or None.
RECURSIVE first_in_scope(_, _)
first_in_scope(candidates, prefix) ==
    IF candidates = <<>> THEN None
    ELSE IF in_scope(Head(candidates), prefix) THEN Head(candidates)
    ELSE first_in_scope(Tail(candidates), prefix)

\* Mutant of select: a scope of "." is not taken for the root.
select_dot_is_scope(tree, name, start) ==
    IF name = <<>> THEN Raise("NameRequired")
    ELSE LET base == basename(normpath(name))
             eff == effective_start(name, start)
         IN  IF base \notin DOMAIN tree \/ tree[base] = <<>>
             THEN Raise("NotFoundUnderRoot")
             ELSE IF eff = <<>> THEN Ok(tree[base][1])
             ELSE LET rp == first_in_scope(tree[base], rstrip(eff, sep)) IN
                  IF rp = None THEN Raise("NotFoundUnderScope") ELSE Ok(rp)

\* The relative path find selects (lines 96-123), or the error it raises.
select(tree, name, start) ==
    IF name = <<>> THEN Raise("NameRequired")
    ELSE LET base == basename(normpath(name))
             eff == effective_start(name, start)
         IN  IF base \notin DOMAIN tree \/ tree[base] = <<>>
             THEN Raise("NotFoundUnderRoot")
             ELSE IF eff = <<>> \/ eff = dot THEN Ok(tree[base][1])
             ELSE LET rp == first_in_scope(tree[base], rstrip(eff, sep)) IN
                  IF rp = None THEN Raise("NotFoundUnderScope") ELSE Ok(rp)

\* open(full_path) succeeds when the file is on disk at the time of the call.
on_disk(ds, root, rel_path) ==
    /\ dir_exists(ds, root)
    /\ \E f \in ds[root].files : rel_path_of(f) = rel_path

\* FileConfigReader.find: the file read (its full path), or the error.
find(self, ds, name, start) ==
    LET sel == select(self.tree, name, start) IN
    IF ~sel.ok THEN sel
    ELSE IF ~on_disk(ds, self.root, sel.value) THEN Raise("ReadFileNotFound")
    ELSE Ok(join(self.root, sel.value))

\* os.path.splitext(p)[1]: the last component's text from its last dot on,
\* unless nothing but dots comes before that dot.
splitext_ext(p) ==
    LET base == basename(p)
        dots == {i \in 1..Len(base) : base[i] = "."}
    IN  IF dots = {} THEN <<>>
        ELSE LET i == CHOOSE d \in dots : \A e \in dots : e <= d
             IN  IF \A j \in 1..i : base[j] = "." THEN <<>>
                 ELSE SubSeq(base, i, Len(base))

\* str.lower() over the letters of the extensions find knows.
lower_char(c) ==
    CASE c = "C" -> "c"
      [] c = "F" -> "f"
      [] c = "J" -> "j"
      [] c = "L" -> "l"
      [] c = "N" -> "n"
      [] c = "O" -> "o"
      [] c = "Q" -> "q"
      [] c = "S" -> "s"
      [] c = "V" -> "v"
      [] OTHER -> c
lower(str) == [i \in 1..Len(str) |-> lower_char(str[i])]

\* The decoder find applies to a file with the extension ext (lines 126-138).
ext_decoder(ext, parse_known_types) ==
    IF parse_known_types /\ ext = <<".", "j", "s", "o", "n">> THEN "json"
    ELSE IF parse_known_types /\ ext = <<".", "c", "o", "n", "f">> THEN "conf"
    ELSE IF parse_known_types /\ ext = <<".", "s", "q", "l">> THEN "sql"
    ELSE IF parse_known_types /\ ext = <<".", "c", "s", "v">> THEN "csv"
    ELSE "raw"

\* ext = os.path.splitext(full_path)[1].lower() and the decoder chosen by it.
decoder_of(full_path, parse_known_types) ==
    ext_decoder(lower(splitext_ext(full_path)), parse_known_types)

(***************************************************************************)
(* State                                                                   *)
(***************************************************************************)

VARIABLES
    files,          \* the configuration files on disk: path -> File or NoFile
    dirs,           \* the directories on disk: absolute root -> Dir or NoDir
    _config_cache,  \* FileConfigReader._config_cache: (path, kind) -> entry
    _tree_cache,    \* FileConfigReader._tree_cache: absolute root -> index
    facades,        \* the caller's Facade objects: name -> [config, root, tree]
    snapshots,      \* history: the files each held index was scanned from
    last            \* the most recent call: its arguments and its outcome

vars == <<files, dirs, _config_cache, _tree_cache, facades, snapshots, last>>

\* A caller's variable that holds no Facade yet.
NoFacade == [built |-> FALSE, config |-> EmptyDict, root |-> <<>>, tree |-> EmptyDict]
Facade(config, root, tree) ==
    [built |-> TRUE, config |-> config, root |-> root, tree |-> tree]

\* The record of a call: its arguments, its outcome (the value returned is
\* filed under the operation's name, values of different operations being of
\* different types), whether it parsed a file and whether it walked a
\* directory.
Call(op, args, out, parsed, scanned) ==
    [op |-> op, args |-> args,
     out |-> [ok |-> out.ok, err |-> out.err, missing |-> out.missing,
              value |-> IF out.ok THEN op :> out.value ELSE EmptyDict],
     parsed |-> parsed, scanned |-> scanned]

\* The value a successful call returned.
Result(call) == call.out.value[call.op]

\* A change of the filesystem by something outside the program.
External == Call("external", <<>>, Ok(None), FALSE, FALSE)

\* FileConfigReader.find with parse_known_types: the outcome, the two
\* caches and the Facade afterwards, whether a directory was walked, the
\* relative path selected, the files opened and the decoder applied.
FindResult(out, ccache, tcache, self, selected, reads, decoder) ==
    [out |-> out, config_cache |-> ccache, tree_cache |-> tcache, self |-> self,
     scanned |-> FALSE, selected |-> selected, reads |-> reads, decoder |-> decoder]

\* Mutant of find_decode: a .conf file is loaded through the config cache.
find_decode_caches_conf(ccache, tcache, self, rel_path, full_path, decoder, decodes) ==
    IF decoder # "raw" /\ ~decodes
    THEN FindResult(Raise("DecodeError"), ccache, tcache, self, rel_path,
                    {full_path}, decoder)
    ELSE FindResult(Ok(full_path),
                    IF decoder = "conf"
                    THEN Put(ccache, <<full_path, KEY_VALUE>>,
                             [mtime |-> 1, config |-> EmptyDict])
                    ELSE ccache,
                    tcache, self, rel_path, {full_path}, decoder)

\* Lines 126-138 of find: the file at full_path is opened and decoded. Its
\* content is one the decoder accepts (decodes) or rejects; a raw read
\* replaces what it cannot decode and never fails.
find_decode(ccache, tcache, self, rel_path, full_path, decoder, decodes) ==
    IF decoder # "raw" /\ ~decodes
    THEN FindResult(Raise("DecodeError"), ccache, tcache, self, rel_path,
                    {full_path}, decoder)
    ELSE FindResult(Ok(full_path), ccache, tcache, self, rel_path,
                    {full_path}, decoder)

\* Mutant of find_selected: the Facade takes the tree now cached for its root.
find_selected_refreshes_tree(ccache, tcache, self, ds, sel, parse_known_types, decodes) ==
    IF ~sel.ok
    THEN FindResult(sel, ccache, tcache, [self EXCEPT !.tree = IF self.root \in DOMAIN tcache THEN tcache[self.root] ELSE @], None, {}, "none")
    ELSE IF ~on_disk(ds, self.root, sel.value)
    THEN FindResult(Raise("ReadFileNotFound"), ccache, tcache, [self EXCEPT !.tree = IF self.root \in DOMAIN tcache THEN tcache[self.root] ELSE @],
                    sel.value, {}, "none")
    ELSE find_decode(ccache, tcache, [self EXCEPT !.tree = IF self.root \in DOMAIN tcache THEN tcache[self.root] ELSE @], sel.value,
                     join(self.root, sel.value),
                     decoder_of(join(self.root, sel.value), parse_known_types), decodes)

\* Lines 107-138 of find, the selection made: full_path is joined and the
\* file, if it is still on disk, opened.
find_selected(ccache, tcache, self, ds, sel, parse_known_types, decodes) ==
    IF ~sel.ok THEN FindResult(sel, ccache, tcache, self, None, {}, "none")
    ELSE IF ~on_disk(ds, self.root, sel.value)
    THEN FindResult(Raise("ReadFileNotFound"), ccache, tcache, self, sel.value, {}, "none")
    ELSE find_decode(ccache, tcache, self, sel.value, join(self.root, sel.value),
                     decoder_of(join(self.root, sel.value), parse_known_types), decodes)

\* FileConfigReader.find(name, start, parse_known_types)
find_parsed(ccache, tcache, self, ds, name, start, parse_known_types, decodes) ==
    find_selected(ccache, tcache, self, ds, select(self.tree, name, start),
                  parse_known_types, decodes)

(***************************************************************************)
(* Cache Layer                                                             *)
(***************************************************************************)

\* Mutant of entry_fresh: any entry for the key is served, whatever its mtime.
entry_present(cache, key, mtime) == key \in DOMAIN cache

\* entry and entry.get("mtime") == mtime
entry_fresh(cache, key, mtime) ==
    key \in DOMAIN cache /\ cache[key].mtime = mtime

\* FileConfigReader._get_config: the outcome, the cache afterwards, and
\* whether the file was parsed.
GetConfigResult(out, cache, parsed) == [out |-> out, cache |-> cache, parsed |-> parsed]

\* Mutant of _get_config: the entry is stored before the file is parsed, so a
\* failed parse leaves an entry behind.
_get_config_stores_first(cache, fs, path, conf_type, required_keys) ==
    IF ~fs[path].exists THEN GetConfigResult(Raise("FileNotFound"), cache, FALSE)
    ELSE LET key == <<path, conf_type>>
             mtime == fs[path].mtime
         IN  IF entry_fresh(cache, key, mtime)
             THEN GetConfigResult(Ok(cache[key].config), cache, FALSE)
             ELSE LET loaded == load_config(fs, path, conf_type, required_keys) IN
                  GetConfigResult(
                      loaded,
                      Put(cache, key,
                          [mtime |-> mtime,
                           config |-> IF loaded.ok THEN loaded.value ELSE EmptyDict]),
                      TRUE)

\* Mutant of _get_config: a failed parse drops the entry the cache held.
_get_config_drops_on_failure(cache, fs, path, conf_type, required_keys) ==
    IF ~fs[path].exists THEN GetConfigResult(Raise("FileNotFound"), cache, FALSE)
    ELSE LET key == <<path, conf_type>>
             mtime == fs[path].mtime
         IN  IF entry_fresh(cache, key, mtime)
             THEN GetConfigResult(Ok(cache[key].config), cache, FALSE)
             ELSE LET loaded == load_config(fs, path, conf_type, required_keys) IN
                  IF ~loaded.ok THEN GetConfigResult(loaded, Pop(cache, key), TRUE)
                  ELSE GetConfigResult(
                           loaded,
                           Put(cache, key, [mtime |-> mtime, config |-> loaded.value]),
                           TRUE)

\* Mutant of _get_config: an entry is served when the file is gone.
_get_config_serves_missing(cache, fs, path, conf_type, required_keys) ==
    LET key == <<path, conf_type>> IN
    IF ~fs[path].exists
    THEN IF key \in DOMAIN cache
         THEN GetConfigResult(Ok(cache[key].config), cache, FALSE)
         ELSE GetConfigResult(Raise("FileNotFound"), cache, FALSE)
    ELSE LET mtime == fs[path].mtime
         IN  IF entry_fresh(cache, key, mtime)
             THEN GetConfigResult(Ok(cache[key].config), cache, FALSE)
             ELSE LET loaded == load_config(fs, path, conf_type, required_keys) IN
                  IF ~loaded.ok THEN GetConfigResult(loaded, cache, TRUE)
                  ELSE GetConfigResult(
                           loaded,
                           Put(cache, key, [mtime |-> mtime, config |-> loaded.value]),
                           TRUE)

_get_config(cache, fs, path, conf_type, required_keys) ==
    IF ~fs[path].exists THEN GetConfigResult(Raise("FileNotFound"), cache, FALSE)
    ELSE LET key == <<path, conf_type>>
             mtime == fs[path].mtime
         IN  IF entry_fresh(cache, key, mtime)
             THEN GetConfigResult(Ok(cache[key].config), cache, FALSE)
             ELSE LET loaded == load_config(fs, path, conf_type, required_keys) IN
                  IF ~loaded.ok THEN GetConfigResult(loaded, cache, TRUE)
                  ELSE GetConfigResult(
                           loaded,
                           Put(cache, key, [mtime |-> mtime, config |-> loaded.value]),
                           TRUE)

\* Mutant of entry_to_store: the mtime is read when the entry is stored.
entry_to_store_mtime_now(mtime, fs, path, config) ==
    [mtime |-> fs[path].mtime, config |-> config]

\* {"mtime": mtime, "config": config} of line 46: the mtime is the one line
\* 41 sampled, before the file was loaded.
entry_to_store(mtime, fs, path, config) == [mtime |-> mtime, config |-> config]

\* FileConfigReader._get_tree: the outcome, the cache afterwards, and whether
\* the directory was scanned.
GetTreeResult(out, cache, scanned) == [out |-> out, cache |-> cache, scanned |-> scanned]

\* Mutant of _get_tree: the directory is scanned on every call.
_get_tree_rescans(cache, ds, root_abs) ==
    LET scan == tree_scan(ds, root_abs) IN
    IF ~scan.ok THEN GetTreeResult(scan, cache, FALSE)
    ELSE GetTreeResult(scan, Put(cache, root_abs, scan.value), TRUE)

_get_tree(cache, ds, root_abs) ==
    IF root_abs \in DOMAIN cache
    THEN GetTreeResult(Ok(cache[root_abs]), cache, FALSE)
    ELSE LET scan == tree_scan(ds, root_abs) IN
         IF ~scan.ok THEN GetTreeResult(scan, cache, FALSE)
         ELSE GetTreeResult(scan, Put(cache, root_abs, scan.value), TRUE)

\* Mutant of pop_config_path: only the key=value entry of the path is popped.
pop_config_path_one_kind(cache, config_path) ==
    [key \in DOMAIN cache \ {<<config_path, KEY_VALUE>>} |-> cache[key]]

\* The config cache after the loop of invalidate_caches over its keys.
pop_config_path(cache, config_path) ==
    [key \in {k \in DOMAIN cache : k[1] # config_path} |-> cache[key]]

\* Mutant of invalidate_caches: a root given clears the whole tree cache.
invalidate_caches_root_clears_all(ccache, tcache, config_path, root) ==
    IF config_path = None /\ root = None
    THEN [config |-> EmptyDict, tree |-> EmptyDict]
    ELSE [config |-> IF config_path # None
                     THEN pop_config_path(ccache, config_path) ELSE ccache,
          tree   |-> IF root # None THEN EmptyDict ELSE tcache]

\* Mutant of invalidate_caches: the root is looked up as given, not in its
\* absolute form.
invalidate_caches_root_as_given(ccache, tcache, config_path, root) ==
    IF config_path = None /\ root = None
    THEN [config |-> EmptyDict, tree |-> EmptyDict]
    ELSE [config |-> IF config_path # None
                     THEN pop_config_path(ccache, config_path) ELSE ccache,
          tree   |-> IF root # None THEN Pop(tcache, root) ELSE tcache]

\* Mutant of invalidate_caches: the call without arguments clears the config
\* cache only.
invalidate_caches_keeps_trees(ccache, tcache, config_path, root) ==
    IF config_path = None /\ root = None
    THEN [config |-> EmptyDict, tree |-> tcache]
    ELSE [config |-> IF config_path # None
                     THEN pop_config_path(ccache, config_path) ELSE ccache,
          tree   |-> IF root # None THEN Pop(tcache, abspath(root)) ELSE tcache]

\* FileConfigReader.invalidate_caches: the two caches afterwards.
invalidate_caches(ccache, tcache, config_path, root) ==
    IF config_path = None /\ root = None
    THEN [config |-> EmptyDict, tree |-> EmptyDict]
    ELSE [config |-> IF config_path # None
                     THEN pop_config_path(ccache, config_path) ELSE ccache,
          tree   |-> IF root # None THEN Pop(tcache, abspath(root)) ELSE tcache]

(***************************************************************************)
(* Reader Facade                                                           *)
(***************************************************************************)

InitResult(out, ccache, tcache, parsed, scanned) ==
    [out |-> out, config_cache |-> ccache, tree_cache |-> tcache,
     parsed |-> parsed, scanned |-> scanned]

\* self.config.get('root', None)
get_root(config) == IF "root" \in DOMAIN config THEN config["root"] ELSE None

\* Mutant of not_root: only an absent root is refused.
not_root_absent_only(root) == root = None

\* if not root
not_root(root) == root = None \/ root = <<>>

\* Mutant of __init__: force_refresh is ignored.
__init__ignores_force(ccache, tcache, fs, ds, config_path, conf_type, required_keys, force_refresh) ==
    LET got == _get_config(ccache, fs, config_path, conf_type, required_keys)
    IN  IF ~got.out.ok THEN InitResult(got.out, got.cache, tcache, got.parsed, FALSE)
        ELSE LET config == got.out.value
                 root == get_root(config)
             IN  IF not_root(root)
                 THEN InitResult(Raise("MissingRoot"), got.cache, tcache, got.parsed, FALSE)
                 ELSE LET tree == _get_tree(tcache, ds, abspath(root)) IN
                      IF ~tree.out.ok
                      THEN InitResult(tree.out, got.cache, tree.cache, got.parsed, FALSE)
                      ELSE InitResult(Ok(Facade(config, abspath(root), tree.out.value)),
                                      got.cache, tree.cache, got.parsed, tree.scanned)

\* FileConfigReader.__init__: the Facade built (or the error raised) and the
\* two caches afterwards.
__init__(ccache, tcache, fs, ds, config_path, conf_type, required_keys, force_refresh) ==
    LET cc0 == IF force_refresh
               THEN invalidate_caches(ccache, tcache, config_path, None).config
               ELSE ccache
        got == _get_config(cc0, fs, config_path, conf_type, required_keys)
    IN  IF ~got.out.ok THEN InitResult(got.out, got.cache, tcache, got.parsed, FALSE)
        ELSE LET config == got.out.value
                 root == get_root(config)
             IN  IF not_root(root)
                 THEN InitResult(Raise("MissingRoot"), got.cache, tcache, got.parsed, FALSE)
                 ELSE LET tree == _get_tree(tcache, ds, abspath(root)) IN
                      IF ~tree.out.ok
                      THEN InitResult(tree.out, got.cache, tree.cache, got.parsed, FALSE)
                      ELSE InitResult(Ok(Facade(config, abspath(root), tree.out.value)),
                                      got.cache, tree.cache, got.parsed, tree.scanned)

(***************************************************************************)
(* Operations                                                              *)
(***************************************************************************)

\* The files a newly scanned index of root_abs was built from.
record_scan(scanned, ds, root_abs) ==
    IF scanned THEN [snapshots EXCEPT !.cache = Put(@, root_abs, ds[root_abs].files)]
    ELSE snapshots

\* f = FileConfigReader(config_path, conf_type, required_keys, force_refresh).
\* The record keeps, beside the arguments, whether the config cache held an
\* entry for (config_path, conf_type) with the file's mtime when the call began.
Construct(f, config_path, conf_type, required_keys, force_refresh) ==
    LET r == __init__(_config_cache, _tree_cache, files, dirs,
                      config_path, conf_type, required_keys, force_refresh)
    IN  /\ _config_cache' = r.config_cache
        /\ _tree_cache' = r.tree_cache
        /\ facades' = IF r.out.ok THEN [facades EXCEPT ![f] = r.out.value] ELSE facades
        /\ snapshots' =
              IF ~r.out.ok THEN snapshots
              ELSE LET root == r.out.value.root
                       s1 == record_scan(r.scanned, dirs, root)
                   IN  [s1 EXCEPT !.facade[f] = s1.cache[root]]
        /\ last' = Call("__init__",
                        [f |-> f, path |-> config_path, conf_type |-> conf_type,
                         required_keys |-> required_keys, force_refresh |-> force_refresh,
                         fresh_before |->
                            /\ files[config_path].exists
                            /\ entry_fresh(_config_cache, <<config_path, conf_type>>,
                                           files[config_path].mtime)],
                        r.out, r.parsed, r.scanned)
        /\ UNCHANGED <<files, dirs>>

\* FileConfigReader._get_config(path, conf_type, required_keys)
GetConfig(path, conf_type, required_keys) ==
    LET r == _get_config(_config_cache, files, path, conf_type, required_keys)
    IN  /\ _config_cache' = r.cache
        /\ last' = Call("_get_config",
                        [path |-> path, conf_type |-> conf_type,
                         required_keys |-> required_keys],
                        r.out, r.parsed, FALSE)
        /\ UNCHANGED <<files, dirs, _tree_cache, facades, snapshots>>

\* _get_config step by step, for a file that other programs write while the
\* call runs. Lines 38-44: the file is tested, its mtime sampled and the
\* cache consulted; the call returns on a hit and goes on otherwise, the
\* record then being that of the call in progress with the mtime it sampled.
GetConfigSample(path, conf_type, required_keys) ==
    /\ last.op \notin {"sampled", "loaded"}
    /\ LET args == [path |-> path, conf_type |-> conf_type,
                    required_keys |-> required_keys]
           key == <<path, conf_type>>
       IN  last' = IF ~files[path].exists
                   THEN Call("_get_config", args, Raise("FileNotFound"), FALSE, FALSE)
                   ELSE IF entry_fresh(_config_cache, key, files[path].mtime)
                   THEN Call("_get_config", args, Ok(_config_cache[key].config),
                             FALSE, FALSE)
                   ELSE Call("sampled",
                             [path |-> path, conf_type |-> conf_type,
                              required_keys |-> required_keys,
                              mtime |-> files[path].mtime],
                             Ok(None), FALSE, FALSE)
    /\ UNCHANGED <<files, dirs, _config_cache, _tree_cache, facades, snapshots>>

\* Line 45: the file is loaded as it is now; a failure ends the call.
GetConfigLoad ==
    /\ last.op = "sampled"
    /\ LET a == last.args
           loaded == load_config(files, a.path, a.conf_type, a.required_keys)
       IN  last' = IF ~loaded.ok
                   THEN Call("_get_config",
                             [path |-> a.path, conf_type |-> a.conf_type,
                              required_keys |-> a.required_keys],
                             loaded, TRUE, FALSE)
                   ELSE Call("loaded",
                             [path |-> a.path, conf_type |-> a.conf_type,
                              required_keys |-> a.required_keys,
                              mtime |-> a.mtime, config |-> loaded.value],
                             Ok(None), TRUE, FALSE)
    /\ UNCHANGED <<files, dirs, _config_cache, _tree_cache, facades, snapshots>>

\* Lines 46-47: the entry is stored and the configuration returned.
GetConfigStore ==
    /\ last.op = "loaded"
    /\ _config_cache' = Put(_config_cache, <<last.args.path, last.args.conf_type>>,
                            entry_to_store(last.args.mtime, files, last.args.path,
                                           last.args.config))
    /\ last' = Call("_get_config",
                    [path |-> last.args.path, conf_type |-> last.args.conf_type,
                     required_keys |-> last.args.required_keys],
                    Ok(last.args.config), TRUE, FALSE)
    /\ UNCHANGED <<files, dirs, _tree_cache, facades, snapshots>>

\* FileConfigReader.load_config(path, conf_type, required_keys)
LoadConfig(path, conf_type, required_keys) ==
    /\ last' = Call("load_config",
                    [path |-> path, conf_type |-> conf_type,
                     required_keys |-> required_keys],
                    load_config(files, path, conf_type, required_keys), TRUE, FALSE)
    /\ UNCHANGED <<files, dirs, _config_cache, _tree_cache, facades, snapshots>>

\* FileConfigReader._get_tree(root_abs)
GetTree(root_abs) ==
    LET r == _get_tree(_tree_cache, dirs, root_abs)
    IN  /\ _tree_cache' = r.cache
        /\ snapshots' = record_scan(r.scanned, dirs, root_abs)
        /\ last' = Call("_get_tree", [root |-> root_abs], r.out, FALSE, r.scanned)
        /\ UNCHANGED <<files, dirs, _config_cache, facades>>

\* facades[f].find(name, start). The record keeps, beside the arguments, the
\* relative path the call selected before it opened the file.
Find(f, name, start) ==
    /\ facades[f].built
    /\ last' = Call("find",
                    [f |-> f, name |-> name, start |-> start,
                     selected |-> LET sel == select(facades[f].tree, name, start)
                                  IN  IF sel.ok THEN sel.value ELSE None],
                    find(facades[f], dirs, name, start), FALSE, FALSE)
    /\ UNCHANGED <<files, dirs, _config_cache, _tree_cache, facades, snapshots>>

\* The state after facades[f].find(...) had the effects r; the record keeps
\* the relative path selected, the decoder applied and the files opened.
FindEffects(f, name, start, parse_known_types, r) ==
    /\ _config_cache' = r.config_cache
    /\ _tree_cache' = r.tree_cache
    /\ facades' = [facades EXCEPT ![f] = r.self]
    /\ last' = Call("find",
                    [f |-> f, name |-> name, start |-> start,
                     selected |-> r.selected,
                     parse_known_types |-> parse_known_types,
                     decoder |-> r.decoder, reads |-> r.reads],
                    r.out, FALSE, r.scanned)
    /\ UNCHANGED <<files, dirs, snapshots>>

\* facades[f].find(name, start, parse_known_types), the file found holding
\* content its decoder accepts or not.
FindParsed(f, name, start, parse_known_types, decodes) ==
    /\ facades[f].built
    /\ FindEffects(f, name, start, parse_known_types,
                   find_parsed(_config_cache, _tree_cache, facades[f], dirs,
                               name, start, parse_known_types, decodes))

\* FileConfigReader.invalidate_caches(config_path=..., root=...)
InvalidateCaches(config_path, root) ==
    LET r == invalidate_caches(_config_cache, _tree_cache, config_path, root)
    IN  /\ _config_cache' = r.config
        /\ _tree_cache' = r.tree
        /\ snapshots' = [snapshots EXCEPT
                           !.cache = [k \in DOMAIN r.tree |-> snapshots.cache[k]]]
        /\ last' = Call("invalidate_caches",
                        [config_path |-> config_path, root |-> root,
                         config_keys_before |-> DOMAIN _config_cache,
                         tree_keys_before |-> DOMAIN _tree_cache],
                        Ok(None), FALSE, FALSE)
        /\ UNCHANGED <<files, dirs, facades>>

(***************************************************************************)
(* The environment: other programs changing the filesystem                 *)
(***************************************************************************)

\* A configuration file is written: any text, any modification time.
WriteFile(path, text, mtime) ==
    /\ files' = [files EXCEPT ![path] = File(text, mtime)]
    /\ files' # files
    /\ last' = External
    /\ UNCHANGED <<dirs, _config_cache, _tree_cache, facades, snapshots>>

\* A configuration file is deleted.
DeleteFile(path) ==
    /\ files[path].exists
    /\ files' = [files EXCEPT ![path] = NoFile]
    /\ last' = External
    /\ UNCHANGED <<dirs, _config_cache, _tree_cache, facades, snapshots>>

\* A file is created below a root directory.
AddTreeFile(root, file) ==
    /\ dirs[root].exists
    /\ file \notin dirs[root].files
    /\ dirs' = [dirs EXCEPT ![root].files = @ \cup {file}]
    /\ last' = External
    /\ UNCHANGED <<files, _config_cache, _tree_cache, facades, snapshots>>

\* A file below a root directory is removed.
RemoveTreeFile(root, file) ==
    /\ dirs[root].exists
    /\ file \in dirs[root].files
    /\ dirs' = [dirs EXCEPT ![root].files = @ \ {file}]
    /\ last' = External
    /\ UNCHANGED <<files, _config_cache, _tree_cache, facades, snapshots>>

(***************************************************************************)
(* Spec: the whole program over a small filesystem                         *)
(***************************************************************************)

\* The caller's variables holding Facades.
Facades == {"f", "g"}

\* No Facade built, no file scanned.
NoSnapshots == [cache |-> EmptyDict, facade |-> [f \in Facades |-> {}]]

ConfigPaths == {pathC}
Texts == {TextRoot, TextNoRoot, TextRootS, TextBad}
RequiredKeys == {None, <<"db">>}
Names == {<<"x">>, <<"y">>}

\* The process starts with empty caches; the disk holds a configuration file
\* naming the root /r, and /r holds two files named x. /s does not exist.
Init ==
    /\ files = [p \in ConfigPaths |-> File(TextRoot, 1)]
    /\ dirs = (rootR :> Dir({fileX, fileAX})) @@ (rootS :> NoDir)
    /\ _config_cache = EmptyDict
    /\ _tree_cache = EmptyDict
    /\ facades = [f \in Facades |-> NoFacade]
    /\ snapshots = NoSnapshots
    /\ last = External

Next ==
    \/ \E p \in ConfigPaths, k \in ConfTypes,
          req \in RequiredKeys, force \in BOOLEAN : Construct("f", p, k, req, force)
    \/ \E p \in ConfigPaths, k \in ConfTypes, req \in RequiredKeys : GetConfig(p, k, req)
    \/ \E r \in {rootR, rootS} : GetTree(r)
    \/ \E n \in Names : Find("f", n, None)
    \/ \E p \in ConfigPaths \cup {None} : InvalidateCaches(p, None)
    \/ InvalidateCaches(None, rootR)
    \/ \E p \in ConfigPaths, t \in Texts, m \in Mtimes : WriteFile(p, t, m)
    \/ \E p \in ConfigPaths : DeleteFile(p)

Spec == Init /\ [][Next]_vars

(***************************************************************************)
(* SpecTree: the tree cache while the directory /r changes                 *)
(***************************************************************************)

TreeFiles == {fileX, fileAX}
TreeNames == {<<"x">>}
TreeStarts == {None, <<"a">>}
TreeRootArgs == {None, rootR, <<"r">>}

\* The configuration file names the root /r and never changes; /r is empty
\* at first and files named x come and go.
InitTree ==
    /\ files = [p \in ConfigPaths |-> File(TextRoot, 1)]
    /\ dirs = (rootR :> Dir({})) @@ (rootS :> NoDir)
    /\ _config_cache = EmptyDict
    /\ _tree_cache = EmptyDict
    /\ facades = [f \in Facades |-> NoFacade]
    /\ snapshots = NoSnapshots
    /\ last = External

NextTree ==
    \/ \E f \in Facades : Construct(f, pathC, KEY_VALUE, None, FALSE)
    \/ GetTree(rootR)
    \/ \E n \in TreeNames, st \in TreeStarts : Find("f", n, st)
    \/ \E r \in TreeRootArgs : InvalidateCaches(None, r)
    \/ InvalidateCaches(pathC, None)
    \/ \E file \in TreeFiles : AddTreeFile(rootR, file)
    \/ \E file \in TreeFiles : RemoveTreeFile(rootR, file)

SpecTree == InitTree /\ [][NextTree]_vars

(***************************************************************************)
(* SpecFind: lookups in every directory tree over five files               *)
(***************************************************************************)

FindFiles == {fileX, fileAX, fileABX, fileBX, fileA_BX}
FindNames == {<<"x">>, <<"a", "/", "x">>}
FindStarts == {None, <<>>, dot, <<"a">>, <<"a", "/">>, <<"a", "b">>,
               <<"a", "/", "b">>, <<"b">>, <<"c">>}

\* A process that has called nothing yet, over any tree of /r.
InitFind ==
    /\ files = [p \in ConfigPaths |-> File(TextRoot, 1)]
    /\ \E fileset \in SUBSET FindFiles :
          dirs = (rootR :> Dir(fileset)) @@ (rootS :> NoDir)
    /\ _config_cache = EmptyDict
    /\ _tree_cache = EmptyDict
    /\ facades = [f \in Facades |-> NoFacade]
    /\ snapshots = NoSnapshots
    /\ last = External

NextFind ==
    \/ Construct("f", pathC, KEY_VALUE, None, FALSE)
    \/ \E n \in FindNames, st \in FindStarts : Find("f", n, st)
    \/ \E file \in FindFiles : RemoveTreeFile(rootR, file)

SpecFind == InitFind /\ [][NextFind]_vars

(***************************************************************************)
(* Properties                                                              *)
(***************************************************************************)

\* The parse of the file at path as it is on disk now, without required keys.
ParseNow(path, conf_type) == load_config(files, path, conf_type, None)

\* C1: the config cache is mtime-gated. A call _get_config(path, kind, keys)
\* on an existing file whose (path, kind) entry stores the file's current
\* mtime returns the cached parse without parsing and leaves the cache alone,
\* even if the file's content changed; in every other case the file is
\* parsed and, the parse succeeding, the entry becomes (current mtime, new
\* parse), the new parse is returned and it is the parse of the content now
\* on disk.
C1_MtimeGated ==
    [][(last'.op = "_get_config" /\ files[last'.args.path].exists) =>
        LET path == last'.args.path
            key == <<path, last'.args.conf_type>>
            mtime == files[path].mtime
        IN  IF key \in DOMAIN _config_cache /\ _config_cache[key].mtime = mtime
            THEN /\ ~last'.parsed
                 /\ last'.out.ok
                 /\ Result(last') = _config_cache[key].config
                 /\ _config_cache' = _config_cache
            ELSE /\ last'.parsed
                 /\ last'.out.ok =>
                      /\ Result(last') = ParseNow(path, last'.args.conf_type).value
                      /\ key \in DOMAIN _config_cache'
                      /\ _config_cache'[key] = [mtime |-> mtime, config |-> Result(last')]
                      /\ \A k \in DOMAIN _config_cache \ {key} :
                            k \in DOMAIN _config_cache' /\ _config_cache'[k] = _config_cache[k]
                      /\ DOMAIN _config_cache' = DOMAIN _config_cache \cup {key}
      ]_vars

\* C1 witness: a _get_config call has just served the cached parse although
\* the file on disk now parses to something else (content changed, mtime
\* did not).
C1_Witness_StaleServed ==
    /\ last.op = "_get_config"
    /\ last.out.ok
    /\ ~last.parsed
    /\ files[last.args.path].exists
    /\ ParseNow(last.args.path, last.args.conf_type).ok
    /\ ParseNow(last.args.path, last.args.conf_type).value # Result(last)

\* The calls C2 is about.
IsCall(op) == op \in {"__init__", "_get_config", "_get_tree", "find"}

\* C2 as stated: every call that raises leaves both caches as they were.
C2_FailedCallLeavesCaches ==
    [][(IsCall(last'.op) /\ ~last'.out.ok) =>
          (_config_cache' = _config_cache /\ _tree_cache' = _tree_cache)]_vars

\* C2 amended: a failing _get_config, _get_tree or find leaves both caches as
\* they were. A failing construction leaves the tree cache as it was and
\* changes the config cache only by the steps it completed: with
\* force_refresh the entries of the given path are gone, and when the config
\* was loaded before the failure (missing root, invalid root) the (path,
\* kind) entry is the parse of the file with the file's current mtime.
C2_FailedCallEffects ==
    [][(IsCall(last'.op) /\ ~last'.out.ok) =>
        /\ _tree_cache' = _tree_cache
        /\ last'.op # "__init__" => _config_cache' = _config_cache
        /\ last'.op = "__init__" =>
             LET path == last'.args.path
                 key == <<path, last'.args.conf_type>>
                 base == IF last'.args.force_refresh
                         THEN [k \in {x \in DOMAIN _config_cache : x[1] # path}
                                 |-> _config_cache[k]]
                         ELSE _config_cache
             IN  IF last'.out.err \in {"MissingRoot", "InvalidRoot"}
                 THEN /\ DOMAIN _config_cache' = DOMAIN base \cup {key}
                      /\ \A k \in DOMAIN base \ {key} : _config_cache'[k] = base[k]
                      /\ _config_cache'[key].mtime = files[path].mtime
                      /\ (key \in DOMAIN base /\ base[key].mtime = files[path].mtime)
                            => _config_cache'[key] = base[key]
                      /\ ~(key \in DOMAIN base /\ base[key].mtime = files[path].mtime)
                            => _config_cache'[key].config
                                 = ParseNow(path, last'.args.conf_type).value
                 ELSE _config_cache' = base
      ]_vars

\* C2 witness: a construction with force_refresh has just failed for a
\* missing root and left the parsed configuration in the config cache.
C2_Witness_FailedConstruction ==
    /\ last.op = "__init__"
    /\ ~last.out.ok
    /\ last.out.err = "MissingRoot"
    /\ last.args.force_refresh
    /\ last.parsed
    /\ <<last.args.path, last.args.conf_type>> \in DOMAIN _config_cache

\* C3 as stated: a construction with a non-empty list of required keys on a
\* file that lacks one of them fails with KeyError, whatever the cache holds.
C3_RequiredKeysValidated ==
    (/\ last.op = "__init__"
     /\ last.args.required_keys # None
     /\ last.args.required_keys # <<>>
     /\ files[last.args.path].exists
     /\ ParseNow(last.args.path, last.args.conf_type).ok
     /\ \E i \in 1..Len(last.args.required_keys) :
           last.args.required_keys[i]
              \notin DOMAIN ParseNow(last.args.path, last.args.conf_type).value)
    => (~last.out.ok /\ ExcType(last.out.err) = "KeyError")

\* The relative path of a file below its root, and the elements of a list.
PathString(file) == joinstr(file, sep)
Elements(list) == {list[i] : i \in 1..Len(list)}

\* The order the specification gives an index's paths: by depth (a file in
\* the root has depth 1, each enclosing directory adds 1), then by the path
\* string.
SpecDepth(p) == count(p, sep) + 1
SpecBefore(p, q) ==
    \/ SpecDepth(p) < SpecDepth(q)
    \/ (SpecDepth(p) = SpecDepth(q) /\ StrLess(p, q))

\* The file with relative path p is below root on disk now.
OnDiskNow(root, p) ==
    /\ root \in DOMAIN dirs
    /\ dirs[root].exists
    /\ \E file \in dirs[root].files : PathString(file) = p

\* A file named name is below root on disk now.
NameOnDiskNow(root, name) ==
    /\ root \in DOMAIN dirs
    /\ dirs[root].exists
    /\ \E file \in dirs[root].files : file[Len(file)] = name

\* The call record c is an invalidate_caches that covers the tree of root.
Invalidates(c, root) ==
    /\ c.op = "invalidate_caches"
    /\ \/ (c.args.config_path = None /\ c.args.root = None)
       \/ (c.args.root # None /\ abspath(c.args.root) = root)

\* C4 as stated: the find that follows invalidate_caches(root=R), on a Facade
\* whose root is R, finds every name that has a file below R on disk.
C4_NextFindSeesNewFiles ==
    [][(/\ last.op = "invalidate_caches"
        /\ last.args.root # None
        /\ last'.op = "find"
        /\ facades[last'.args.f].root = abspath(last.args.root)
        /\ last'.args.start = None
        /\ NameOnDiskNow(facades[last'.args.f].root, last'.args.name))
       => last'.out.ok]_vars

\* C4 amended: after invalidate_caches(root=R) the tree cache has no entry
\* for R; an entry appears only by a scan; a construction over R that finds
\* no entry scans, and its index holds every file then below R, so that the
\* find that follows on the Facade it built finds every name with a file on
\* disk. invalidate_caches changes no Facade: one built before keeps the
\* index it holds.
C4_RescanOnNextConstruction ==
    [][/\ (last'.op = "invalidate_caches" /\ last'.args.root # None)
            => (abspath(last'.args.root) \notin DOMAIN _tree_cache' /\ facades' = facades)
       /\ \A root \in DOMAIN _tree_cache' \ DOMAIN _tree_cache : last'.scanned
       /\ (last'.op = "__init__" /\ last'.out.ok
           /\ Result(last').root \notin DOMAIN _tree_cache)
            => /\ last'.scanned
               /\ \A file \in dirs[Result(last').root].files :
                     /\ file[Len(file)] \in DOMAIN Result(last').tree
                     /\ PathString(file) \in Elements(Result(last').tree[file[Len(file)]])
       /\ (/\ last.op = "__init__" /\ last.out.ok /\ last.scanned
           /\ last'.op = "find" /\ last'.args.f = last.args.f
           /\ last'.args.start = None
           /\ NameOnDiskNow(facades[last'.args.f].root, last'.args.name))
            => last'.out.ok
      ]_vars

\* C4 witness: Facade g was built over /r when it held no file named x, f was
\* built over /r after an invalidation and holds the index now cached, and a
\* find on f has just found x.
C4_Witness_NewFacadeFinds ==
    /\ facades["g"].built /\ facades["f"].built
    /\ facades["g"].root = rootR /\ facades["f"].root = rootR
    /\ <<"x">> \notin DOMAIN facades["g"].tree
    /\ rootR \in DOMAIN _tree_cache
    /\ _tree_cache[rootR] = facades["f"].tree
    /\ last.op = "find" /\ last.args.f = "f" /\ last.args.name = <<"x">>
    /\ last.out.ok

\* C5: an unscoped find (start absent, empty or ".", no directory in the
\* name) of a name the index holds selects the path that comes before every
\* other path of that name in (depth, path string) order, and returns that
\* file; a name the index does not hold fails with 'not found under root'.
C5_UnscopedSelectsMinimum ==
    (/\ last.op = "find"
     /\ last.args.start \in {None, <<>>, dot}
     /\ count(last.args.name, sep) = 0)
    => LET tree == facades[last.args.f].tree
           name == last.args.name
       IN  IF name \in DOMAIN tree
           THEN /\ last.args.selected \in Elements(tree[name])
                /\ \A q \in Elements(tree[name]) \ {last.args.selected} :
                      SpecBefore(last.args.selected, q)
                /\ last.out.ok =>
                      Result(last) = facades[last.args.f].root \o <<sep>> \o last.args.selected
                /\ ~last.out.ok => last.out.err = "ReadFileNotFound"
           ELSE ~last.out.ok /\ last.out.err = "NotFoundUnderRoot"

\* C5 witness: with x, a/x and three deeper files indexed, find("x", ".")
\* has just returned /r/x.
C5_Witness_ShallowestWins ==
    /\ last.op = "find"
    /\ last.args.start = dot
    /\ last.args.name = <<"x">>
    /\ <<"x">> \in DOMAIN facades["f"].tree
    /\ Len(facades["f"].tree[<<"x">>]) = 5
    /\ last.out.ok
    /\ Result(last) = <<"/", "r", "/", "x">>

\* The scope of find(name, start): the normalized join of start and the
\* directory part of name.
ScopeOf(name, start) ==
    normpath(join(IF start = None THEN <<>> ELSE start, dirname(normpath(name))))

\* p lies inside scope s.
Inside(p, s) == p = s \/ startswith(p, s \o <<sep>>)

\* C6: a find with a non-empty scope S that is not the root selects, among
\* the indexed paths of the name, the first in index order that equals S or
\* begins with S and the separator; it comes before every other such path in
\* (depth, path string) order. If no path of the name is inside S the call
\* fails with 'not found under scope'.
C6_ScopedSelectsFirstInside ==
    (/\ last.op = "find"
     /\ (last.args.start \notin {None, <<>>} \/ dirname(normpath(last.args.name)) # <<>>)
     /\ ScopeOf(last.args.name, last.args.start) # dot
     /\ basename(normpath(last.args.name)) \in DOMAIN facades[last.args.f].tree)
    => LET paths == facades[last.args.f].tree[basename(normpath(last.args.name))]
           scope == ScopeOf(last.args.name, last.args.start)
           inside == {i \in 1..Len(paths) : Inside(paths[i], scope)}
       IN  IF inside # {}
           THEN /\ \E i \in inside :
                     /\ last.args.selected = paths[i]
                     /\ \A j \in inside \ {i} : i < j /\ SpecBefore(paths[i], paths[j])
                /\ last.out.ok =>
                      Result(last) = facades[last.args.f].root \o <<sep>> \o last.args.selected
                /\ ~last.out.ok => last.out.err = "ReadFileNotFound"
           ELSE ~last.out.ok /\ last.out.err = "NotFoundUnderScope"

\* C6 witness: with a/x and b/x indexed, find("x", start="b") has just
\* returned /r/b/x.
C6_Witness_ScopeB ==
    /\ last.op = "find"
    /\ last.args.name = <<"x">>
    /\ last.args.start = <<"b">>
    /\ <<"x">> \in DOMAIN facades["f"].tree
    /\ <<"a", "/", "x">> \in Elements(facades["f"].tree[<<"x">>])
    /\ last.out.ok
    /\ Result(last) = <<"/", "r", "/", "b", "/", "x">>

\* The directories above the file with relative path p: a, a/b for a/b/x.
AncestorDirs(p) ==
    LET comps == split(p, sep)
    IN  {joinstr(SubSeq(comps, 1, k), sep) : k \in 1..(Len(comps) - 1)}

\* C7: for a name indexed at exactly one path P, find(name, start) selects P
\* for every start that is absent, empty or a directory above P, and returns
\* P's file whenever P is still on disk; the selection never fails.
C7_UniqueNameAnyAncestorScope ==
    (/\ last.op = "find"
     /\ count(last.args.name, sep) = 0
     /\ last.args.name \in DOMAIN facades[last.args.f].tree
     /\ Len(facades[last.args.f].tree[last.args.name]) = 1
     /\ \/ last.args.start \in {None, <<>>}
        \/ last.args.start \in AncestorDirs(facades[last.args.f].tree[last.args.name][1]))
    => LET P == facades[last.args.f].tree[last.args.name][1]
           root == facades[last.args.f].root
       IN  /\ last.args.selected = P
           /\ OnDiskNow(root, P) => (last.out.ok /\ Result(last) = root \o <<sep>> \o P)
           /\ ~OnDiskNow(root, P) => (~last.out.ok /\ last.out.err = "ReadFileNotFound")

\* C7 witness: a/b/x is the only x indexed and find("x", start="a") has just
\* returned it.
C7_Witness_AncestorScope ==
    /\ last.op = "find"
    /\ last.args.name = <<"x">>
    /\ last.args.start = <<"a">>
    /\ <<"x">> \in DOMAIN facades["f"].tree
    /\ facades["f"].tree[<<"x">>] = << <<"a", "/", "b", "/", "x">> >>
    /\ last.out.ok
    /\ Result(last) = <<"/", "r", "/", "a", "/", "b", "/", "x">>

\* index is the index of the files in fileset: its names are the files' names,
\* each name's list holds exactly the relative paths of the files of that
\* name, and the list ascends strictly in (depth, path string) order (so it
\* holds no path twice).
IsIndexOf(index, fileset) ==
    /\ DOMAIN index = {file[Len(file)] : file \in fileset}
    /\ \A name \in DOMAIN index :
          /\ Elements(index[name])
                = {PathString(file) : file \in {g \in fileset : g[Len(g)] = name}}
          /\ \A i, j \in 1..Len(index[name]) :
                i < j => SpecBefore(index[name][i], index[name][j])
          /\ \A i \in 1..Len(index[name]) :
                \E file \in fileset :
                    PathString(file) = index[name][i] /\ SpecDepth(index[name][i]) = Len(file)

\* C8: every index in the tree cache, every index a Facade holds and the
\* index a scan has just returned is the index of the files that were below
\* the root when it was scanned.
C8_IndexSortedAndExact ==
    /\ \A root \in DOMAIN _tree_cache :
          IsIndexOf(_tree_cache[root], snapshots.cache[root])
    /\ \A f \in Facades :
          facades[f].built => IsIndexOf(facades[f].tree, snapshots.facade[f])
    /\ (last.op = "__init__" /\ last.out.ok /\ last.scanned)
          => IsIndexOf(Result(last).tree, dirs[Result(last).root].files)

\* C8 witness: a Facade holds the index of all five files named x, where depth
\* order and string order disagree (b/x before a/b/x).
C8_Witness_FiveFiles ==
    /\ facades["f"].built
    /\ <<"x">> \in DOMAIN facades["f"].tree
    /\ Len(facades["f"].tree[<<"x">>]) = 5
    /\ rootR \in DOMAIN _tree_cache

\* C9: while no invalidate_caches() or invalidate_caches(root=R) is called,
\* an entry of the tree cache for R stays as it is, whatever happens to the
\* files below R and to the config cache, and every _get_tree(R) and every
\* construction over R returns that index without scanning.
C9_TreeCacheNeverAutoInvalidated ==
    [][\A root \in DOMAIN _tree_cache :
          ~Invalidates(last', root) =>
             /\ root \in DOMAIN _tree_cache'
             /\ _tree_cache'[root] = _tree_cache[root]
             /\ (last'.op = "_get_tree" /\ last'.args.root = root)
                   => (last'.out.ok /\ ~last'.scanned
                       /\ Result(last') = _tree_cache[root])
             /\ (last'.op = "__init__" /\ last'.out.ok /\ Result(last').root = root)
                   => (~last'.scanned /\ Result(last').tree = _tree_cache[root])
      ]_vars

\* C9 witness: a construction over /r has just been served the cached index
\* without a scan although the files below /r are no longer those indexed.
C9_Witness_StaleIndexServed ==
    /\ last.op = "__init__"
    /\ last.out.ok
    /\ ~last.scanned
    /\ Result(last).root = rootR
    /\ dirs[rootR].files # snapshots.facade[last.args.f]

\* C10: after invalidate_caches() without arguments both caches are empty.
C10_InvalidateAllEmptiesBoth ==
    (/\ last.op = "invalidate_caches"
     /\ last.args.config_path = None
     /\ last.args.root = None)
    => (DOMAIN _config_cache = {} /\ DOMAIN _tree_cache = {})

\* C10 witness: invalidate_caches() has just been called while both caches
\* held entries.
C10_Witness_BothWerePopulated ==
    /\ last.op = "invalidate_caches"
    /\ last.args.config_path = None
    /\ last.args.root = None
    /\ last.args.config_keys_before # {}
    /\ last.args.tree_keys_before # {}

(***************************************************************************)
(* SpecInvalidate: invalidation with two config files and two roots        *)
(***************************************************************************)

InvalidatePaths == {pathC, pathD}
InvalidateTexts == {TextRoot, TextJson}
InvalidateRoots == {rootR, rootS}
InvalidateRootArgs == {rootR, <<"r">>, rootS, <<"s", "/">>}

\* Two configuration files and two existing root directories; nothing is
\* cached yet. The files are rewritten as key=value text or as JSON, so that
\* a path gets an entry of each kind.
InitInvalidate ==
    /\ files = [p \in InvalidatePaths |-> File(TextRoot, 1)]
    /\ dirs = (rootR :> Dir({fileX})) @@ (rootS :> Dir({}))
    /\ _config_cache = EmptyDict
    /\ _tree_cache = EmptyDict
    /\ facades = [f \in Facades |-> NoFacade]
    /\ snapshots = NoSnapshots
    /\ last = External

NextInvalidate ==
    \/ \E p \in InvalidatePaths, k \in ConfTypes : GetConfig(p, k, None)
    \/ \E r \in InvalidateRoots : GetTree(r)
    \/ InvalidateCaches(None, None)
    \/ \E p \in InvalidatePaths : InvalidateCaches(p, None)
    \/ \E r \in InvalidateRootArgs : InvalidateCaches(None, r)
    \/ InvalidateCaches(pathC, rootR)
    \/ \E p \in InvalidatePaths, t \in InvalidateTexts : WriteFile(p, t, 1)

SpecInvalidate == InitInvalidate /\ [][NextInvalidate]_vars

\* C11: invalidate_caches(config_path=p) without a root removes the entries
\* of the config cache whose key has the path p, of every kind, and nothing
\* else: the other entries and the tree cache stay as they were.
C11_PathInvalidationFrame ==
    [][(/\ last'.op = "invalidate_caches"
        /\ last'.args.config_path # None
        /\ last'.args.root = None) =>
          /\ DOMAIN _config_cache' =
                {k \in DOMAIN _config_cache : k[1] # last'.args.config_path}
          /\ \A k \in DOMAIN _config_cache' : _config_cache'[k] = _config_cache[k]
          /\ _tree_cache' = _tree_cache
      ]_vars

\* C11 witness: invalidate_caches(config_path="c") has just removed the
\* entries of both kinds for c, while an entry for d and a cached tree stay.
C11_Witness_BothKindsRemoved ==
    /\ last.op = "invalidate_caches"
    /\ last.args.config_path = pathC
    /\ last.args.root = None
    /\ {<<pathC, KEY_VALUE>>, <<pathC, JSON>>} \subseteq last.args.config_keys_before
    /\ \E k \in DOMAIN _config_cache : k[1] = pathD
    /\ DOMAIN _tree_cache # {}

\* C12: invalidate_caches(root=r) without a config path removes the entry of
\* the tree cache keyed by the absolute form of r, given absolute or
\* relative, and nothing else: the entries of other roots and the config
\* cache stay as they were.
C12_RootInvalidationFrame ==
    [][(/\ last'.op = "invalidate_caches"
        /\ last'.args.config_path = None
        /\ last'.args.root # None) =>
          LET r == last'.args.root
              absolute == IF r[1] = sep THEN r ELSE <<sep>> \o r
              key == IF absolute[Len(absolute)] = sep
                     THEN SubSeq(absolute, 1, Len(absolute) - 1) ELSE absolute
          IN  /\ DOMAIN _tree_cache' = DOMAIN _tree_cache \ {key}
              /\ \A k \in DOMAIN _tree_cache' : _tree_cache'[k] = _tree_cache[k]
              /\ _config_cache' = _config_cache
      ]_vars

\* C12 witness: invalidate_caches(root="r"), the root given relative to the
\* working directory, has just removed the tree of /r and left the tree of
\* /s and the config cache's entries.
C12_Witness_RelativeRoot ==
    /\ last.op = "invalidate_caches"
    /\ last.args.config_path = None
    /\ last.args.root = <<"r">>
    /\ last.args.tree_keys_before = {rootR, rootS}
    /\ DOMAIN _tree_cache = {rootS}
    /\ DOMAIN _config_cache # {}

\* C13: a construction with force_refresh=True serves no entry the config
\* cache held before the call. The file, if it exists, is parsed, whatever
\* mtime was stored; afterwards the cache holds no entry for the path other
\* than the one this call stored, which is the parse of the file as it is
\* now with its current mtime; and the Facade built holds that parse.
C13_ForceRefreshReparses ==
    [][(last'.op = "__init__" /\ last'.args.force_refresh) =>
        LET path == last'.args.path
            kind == last'.args.conf_type
        IN  /\ files[path].exists => last'.parsed
            /\ \A k \in DOMAIN _config_cache' :
                  k[1] = path =>
                     /\ k = <<path, kind>>
                     /\ files[path].exists
                     /\ ParseNow(path, kind).ok
                     /\ _config_cache'[k] = [mtime |-> files[path].mtime,
                                             config |-> ParseNow(path, kind).value]
            /\ \A k \in DOMAIN _config_cache :
                  k[1] # path =>
                     k \in DOMAIN _config_cache' /\ _config_cache'[k] = _config_cache[k]
            /\ last'.out.ok =>
                  Result(last').config = ParseNow(path, kind).value
      ]_vars

\* C13 witness: a construction with force_refresh has just succeeded and
\* parsed the file, although the cache held an entry with the file's mtime
\* when the call began.
C13_Witness_FreshEntryIgnored ==
    /\ last.op = "__init__"
    /\ last.args.force_refresh
    /\ last.args.fresh_before
    /\ last.parsed
    /\ last.out.ok

\* C14: a config lookup through the cache layer, by _get_config or by a
\* construction, on a path that does not exist at the time of the call
\* fails with FileNotFoundError ('file not found'), whether or not the cache
\* holds an entry for (path, kind).
C14_MissingFileFails ==
    (/\ last.op \in {"_get_config", "__init__"}
     /\ ~files[last.args.path].exists)
    => (/\ ~last.out.ok
        /\ last.out.err = "FileNotFound"
        /\ ExcType(last.out.err) = "FileNotFoundError")

\* C14 witness: _get_config has just failed on a deleted file while the
\* cache holds the entry of an earlier parse of it.
C14_Witness_CachedButDeleted ==
    /\ last.op = "_get_config"
    /\ ~files[last.args.path].exists
    /\ ~last.out.ok
    /\ <<last.args.path, last.args.conf_type>> \in DOMAIN _config_cache

(***************************************************************************)
(* SpecLoad: loading and constructing over every kind of config text       *)
(***************************************************************************)

LoadTexts == {TextRoot, TextRootDb, TextNoRoot, TextEmptyRoot, TextRootTwice,
              TextBad, TextJson, TextJsonNoRoot}
LoadKeys == {None, <<>>, <<"db">>, <<"root", "db">>, <<"pw", "db", "root">>,
             <<"um", "root", "pw">>}

\* The configuration file holds any of the texts; /r exists and nothing is
\* cached yet.
InitLoad ==
    /\ \E t \in LoadTexts : files = [p \in ConfigPaths |-> File(t, 1)]
    /\ dirs = (rootR :> Dir({fileX})) @@ (rootS :> NoDir)
    /\ _config_cache = EmptyDict
    /\ _tree_cache = EmptyDict
    /\ facades = [f \in Facades |-> NoFacade]
    /\ snapshots = NoSnapshots
    /\ last = External

NextLoad ==
    \/ \E k \in ConfTypes, req \in LoadKeys : LoadConfig(pathC, k, req)
    \/ \E k \in ConfTypes, force \in BOOLEAN : Construct("f", pathC, k, None, force)
    \/ GetTree(rootR)
    \/ \E t \in LoadTexts : WriteFile(pathC, t, 1)

SpecLoad == InitLoad /\ [][NextLoad]_vars

\* C15: a construction whose loaded configuration (the cached one when the
\* cache served it, the parse of the file otherwise) has no 'root' key, or
\* an empty value for it, fails with KeyError ('missing root'), scans no
\* directory and leaves the tree cache as it was.
C15_MissingRootFails ==
    [][(/\ last'.op = "__init__"
        /\ files[last'.args.path].exists
        /\ last'.parsed => load_config(files, last'.args.path, last'.args.conf_type,
                                       last'.args.required_keys).ok) =>
        LET path == last'.args.path
            kind == last'.args.conf_type
            loaded == IF last'.parsed THEN ParseNow(path, kind).value
                      ELSE _config_cache[<<path, kind>>].config
        IN  ("root" \notin DOMAIN loaded \/ loaded["root"] = <<>>) =>
               /\ ~last'.out.ok
               /\ last'.out.err = "MissingRoot"
               /\ ExcType(last'.out.err) = "KeyError"
               /\ ~last'.scanned
               /\ _tree_cache' = _tree_cache
      ]_vars

\* C15 witness: a construction has just failed with 'missing root' on a
\* configuration whose root is empty, while the tree cache holds a tree.
C15_Witness_EmptyRoot ==
    /\ last.op = "__init__"
    /\ ~last.out.ok
    /\ last.out.err = "MissingRoot"
    /\ <<last.args.path, last.args.conf_type>> \in DOMAIN _config_cache
    /\ LET config == _config_cache[<<last.args.path, last.args.conf_type>>].config
       IN  "root" \in DOMAIN config /\ config["root"] = <<>>
    /\ DOMAIN _tree_cache # {}

\* The mapping a key=value file denotes: every key assigned by a line, with
\* the value of the last line that assigns it.
Assigned(lines) == {i \in 1..Len(lines) : lines[i].t = "assign"}
Denoted(lines) ==
    [k \in {lines[i].key : i \in Assigned(lines)} |->
        LET at == {i \in Assigned(lines) : lines[i].key = k}
        IN  lines[CHOOSE i \in at : \A j \in at : j <= i].value]

\* C16: load_config of a key=value file that parses, with required keys K,
\* fails with KeyError exactly when a key of K is not in the mapping; the
\* error names the keys of K that are not in it, each of them and no other,
\* in K's order; otherwise the call returns the whole mapping.
C16_RequiredKeysExact ==
    (/\ last.op = "load_config"
     /\ last.args.conf_type = KEY_VALUE
     /\ files[last.args.path].exists
     /\ \A i \in 1..Len(files[last.args.path].text.lines) :
           files[last.args.path].text.lines[i].t # "noequals") =>
       LET mapping == Denoted(files[last.args.path].text.lines)
           K == IF last.args.required_keys = None THEN <<>> ELSE last.args.required_keys
           absent == SelectSeq(K, LAMBDA k : k \notin DOMAIN mapping)
       IN  IF absent # <<>>
           THEN /\ ~last.out.ok
                /\ last.out.err = "MissingRequiredKeys"
                /\ ExcType(last.out.err) = "KeyError"
                /\ last.out.missing = absent
           ELSE /\ last.out.ok
                /\ Result(last) = mapping

\* C16 witness: load_config with required keys pw, db, root on a file that
\* assigns only root has just failed naming pw and db, in that order.
C16_Witness_TwoMissing ==
    /\ last.op = "load_config"
    /\ last.args.conf_type = KEY_VALUE
    /\ last.args.required_keys = <<"pw", "db", "root">>
    /\ ~last.out.ok
    /\ last.out.missing = <<"pw", "db">>

(***************************************************************************)
(* SpecRead: find over files of the types it parses                        *)
(***************************************************************************)

ReadFiles == {fileKConf, fileAJson}
ReadNames == {<<"k", ".", "c", "o", "n", "f">>, <<"j", ".", "j", "s", "o", "n">>}
ReadStarts == {None, <<"a">>}

\* /r holds k.conf and a/j.json; nothing is cached and no Facade is built.
InitRead ==
    /\ files = [p \in ConfigPaths |-> File(TextRoot, 1)]
    /\ dirs = (rootR :> Dir(ReadFiles)) @@ (rootS :> NoDir)
    /\ _config_cache = EmptyDict
    /\ _tree_cache = EmptyDict
    /\ facades = [f \in Facades |-> NoFacade]
    /\ snapshots = NoSnapshots
    /\ last = External

NextRead ==
    \/ Construct("f", pathC, KEY_VALUE, None, FALSE)
    \/ \E n \in ReadNames, st \in ReadStarts, known \in BOOLEAN, decodes \in BOOLEAN :
          FindParsed("f", n, st, known, decodes)
    \/ InvalidateCaches(None, None)
    \/ \E file \in ReadFiles : AddTreeFile(rootR, file)
    \/ \E file \in ReadFiles : RemoveTreeFile(rootR, file)

SpecRead == InitRead /\ [][NextRead]_vars

\* C17: a find call, whether it returns or raises, whatever its name, start
\* and parse_known_types and whatever the type of the file it resolves to,
\* leaves the config cache, the tree cache and every Facade's fields as they
\* were, walks no directory, and opens no file but the one it resolved.
C17_FindReadOnly ==
    [][last'.op = "find" =>
          /\ _config_cache' = _config_cache
          /\ _tree_cache' = _tree_cache
          /\ facades' = facades
          /\ ~last'.scanned
          /\ last'.args.reads \subseteq
                (IF last'.args.selected = None THEN {}
                 ELSE {facades[last'.args.f].root \o <<sep>> \o last'.args.selected})
      ]_vars

\* C17 witness: find("k.conf") has just parsed /r/k.conf as a key=value file
\* while both caches are empty.
C17_Witness_ConfParsedNothingCached ==
    /\ last.op = "find"
    /\ last.out.ok
    /\ last.args.decoder = "conf"
    /\ last.args.reads = {<<"/", "r", "/", "k", ".", "c", "o", "n", "f">>}
    /\ DOMAIN _config_cache = {}
    /\ DOMAIN _tree_cache = {}

(***************************************************************************)
(* SpecFacades: two Facades while the config file and the tree change      *)
(***************************************************************************)

\* The two versions of the configuration file: root=/r written at mtime 1,
\* and root=/s written at the latest mtime.
FacadeVersions == {File(TextRoot, 1), File(TextRootS, MaxMtime)}

\* Both roots exist; /r holds nothing at first and the file x comes and goes.
InitFacades ==
    /\ files = [p \in ConfigPaths |-> File(TextRoot, 1)]
    /\ dirs = (rootR :> Dir({})) @@ (rootS :> Dir({fileAX}))
    /\ _config_cache = EmptyDict
    /\ _tree_cache = EmptyDict
    /\ facades = [f \in Facades |-> NoFacade]
    /\ snapshots = NoSnapshots
    /\ last = External

NextFacades ==
    \/ \E f \in Facades : Construct(f, pathC, KEY_VALUE, None, FALSE)
    \/ \E f \in Facades : FindParsed(f, <<"x">>, None, TRUE, TRUE)
    \/ GetConfig(pathC, KEY_VALUE, None)
    \/ GetTree(rootR)
    \/ InvalidateCaches(None, None)
    \/ InvalidateCaches(pathC, None)
    \/ InvalidateCaches(None, rootR)
    \/ \E v \in FacadeVersions :
          WriteFile(pathC, v.text, v.mtime)
    \/ AddTreeFile(rootR, fileX)
    \/ RemoveTreeFile(rootR, fileX)

SpecFacades == InitFacades /\ [][NextFacades]_vars

\* C18: the config, the root and the tree a Facade holds are those it was
\* built with. No step changes them: not a find on it or on another Facade,
\* an invalidation, the construction of another Facade, a reload of the
\* config or a rescan of the root. (A construction assigned to the caller's
\* variable f makes that variable hold the new Facade.)
C18_FacadeFieldsFixed ==
    [][\A f \in Facades :
          (/\ facades[f].built
           /\ ~(last'.op = "__init__" /\ last'.args.f = f /\ last' # last))
          => facades'[f] = facades[f]
      ]_vars

\* C18 witness: Facade g still holds the config naming /r and the empty tree
\* it was built with, while the file now names /s, the cache holds the new
\* config and a newer tree of /r, and Facade f was built over /s.
C18_Witness_OldFacadeKept ==
    /\ facades["g"].built
    /\ facades["g"].root = rootR
    /\ facades["g"].tree = EmptyDict
    /\ facades["f"].built
    /\ facades["f"].root = rootS
    /\ rootR \in DOMAIN _tree_cache
    /\ _tree_cache[rootR] # EmptyDict
    /\ <<pathC, KEY_VALUE>> \in DOMAIN _config_cache
    /\ _config_cache[<<pathC, KEY_VALUE>>].config # facades["g"].config
    /\ last.op = "find"
    /\ last.args.f = "g"

\* C19: a parse that fails leaves the config cache alone. A _get_config call
\* that raises, and a construction without force_refresh whose config load
\* raises, leave the cache as it was: no entry appears and the entry of the
\* key, if any, stays. An entry appears or changes only in a call that
\* parsed the file of its key with success, required keys included, and it
\* is then that parse with the mtime the file has in that call. The cache
\* being empty at first, every entry of every reachable state is such a pair.
C19_FailedParseKeepsCache ==
    [][/\ (last'.op = "_get_config" /\ ~last'.out.ok) => _config_cache' = _config_cache
       /\ (/\ last'.op = "__init__"
           /\ ~last'.args.force_refresh
           /\ last'.out.err \in {"FileNotFound", "ParseError", "MissingRequiredKeys"})
             => _config_cache' = _config_cache
       /\ \A k \in DOMAIN _config_cache' :
             (k \notin DOMAIN _config_cache \/ _config_cache'[k] # _config_cache[k]) =>
                /\ last'.op \in {"_get_config", "__init__"}
                /\ last'.parsed
                /\ k = <<last'.args.path, last'.args.conf_type>>
                /\ files[k[1]].exists
                /\ load_config(files, k[1], k[2], last'.args.required_keys).ok
                /\ _config_cache'[k] = [mtime |-> files[k[1]].mtime,
                                        config |-> ParseNow(k[1], k[2]).value]
      ]_vars

\* C19 witness: _get_config has just parsed a changed file and failed, and
\* the cache still holds the entry of the earlier parse with its older mtime.
C19_Witness_OldEntryKept ==
    /\ last.op = "_get_config"
    /\ ~last.out.ok
    /\ last.parsed
    /\ last.out.err \in {"ParseError", "MissingRequiredKeys"}
    /\ <<last.args.path, last.args.conf_type>> \in DOMAIN _config_cache
    /\ _config_cache[<<last.args.path, last.args.conf_type>>].mtime
          # files[last.args.path].mtime

(***************************************************************************)
(* SpecRace: a writer changing the config file while _get_config runs      *)
(***************************************************************************)

\* The number of times the writer rewrites the file.
MaxWrites == 3

\* The file as the writer leaves it with mtime v: root=/r and a db value of
\* length v, so that every version parses to a different configuration.
RaceText(v) == KvText(<<Assign("root", rootR), Assign("db", [i \in 1..v |-> "x"])>>)

\* The version of the file a configuration was parsed from.
VersionOf(config) == Len(config["db"])

\* Another program rewrites the file; each write advances its mtime. A call
\* in progress stays in progress.
ExternalWrite(path) ==
    /\ files[path].exists
    /\ files[path].mtime <= MaxWrites
    /\ files' = [files EXCEPT ![path] = File(RaceText(@.mtime + 1), @.mtime + 1)]
    /\ last' = IF last.op \in {"sampled", "loaded"} THEN last ELSE External
    /\ UNCHANGED <<dirs, _config_cache, _tree_cache, facades, snapshots>>

RaceKeys == {None, <<"pw">>}

InitRace ==
    /\ files = [p \in ConfigPaths |-> File(RaceText(1), 1)]
    /\ dirs = (rootR :> Dir({})) @@ (rootS :> NoDir)
    /\ _config_cache = EmptyDict
    /\ _tree_cache = EmptyDict
    /\ facades = [f \in Facades |-> NoFacade]
    /\ snapshots = NoSnapshots
    /\ last = External

NextRace ==
    \/ \E k \in ConfTypes, req \in RaceKeys : GetConfigSample(pathC, k, req)
    \/ GetConfigLoad
    \/ GetConfigStore
    \/ ExternalWrite(pathC)

SpecRace == InitRace /\ [][NextRace]_vars

\* C20: with a writer that advances the mtime at each write, at any point of
\* a _get_config call, an entry never holds content older than its mtime:
\* its content is that of the version of its mtime or of a later one, up to
\* the file's current version. So an entry with the file's current mtime
\* holds the current content, a hit returns the parse of the file as it is,
\* and a call during which the file did not change returns it too: no stale
\* entry outlives the first call that begins after the last write.
C20_NoOlderContentUnderNewerMtime ==
    /\ [](\A k \in DOMAIN _config_cache :
             /\ _config_cache[k].mtime <= VersionOf(_config_cache[k].config)
             /\ VersionOf(_config_cache[k].config) <= files[k[1]].mtime
             /\ _config_cache[k].mtime = files[k[1]].mtime
                   => _config_cache[k].config = ParseNow(k[1], k[2]).value)
    /\ [][(last'.op = "_get_config" /\ last'.out.ok /\ files' = files) =>
             /\ ~last'.parsed => Result(last') = ParseNow(last'.args.path,
                                                          last'.args.conf_type).value
             /\ (last'.parsed /\ last.args.mtime = files[last'.args.path].mtime)
                   => Result(last') = ParseNow(last'.args.path,
                                               last'.args.conf_type).value
         ]_vars

\* C20 witness: a _get_config call has just returned after the file was
\* rewritten between its mtime sample and its load: the entry holds the
\* newer content under the older mtime, and the file has changed again.
C20_Witness_NewerContentOlderMtime ==
    /\ last.op = "_get_config"
    /\ last.out.ok
    /\ last.parsed
    /\ <<pathC, KEY_VALUE>> \in DOMAIN _config_cache
    /\ _config_cache[<<pathC, KEY_VALUE>>].mtime
          < VersionOf(_config_cache[<<pathC, KEY_VALUE>>].config)
    /\ VersionOf(_config_cache[<<pathC, KEY_VALUE>>].config) < files[pathC].mtime

=============================================================================
